---- MODULE Spec2Model ----
(***************************************************************************)
(* Heatzy integration: the refresh coordinator and its command throttler   *)
(* (custom_components/heatzy/__init__.py) and the facade commands that go  *)
(* through them (custom_components/heatzy/climate.py).                     *)
(*                                                                         *)
(* Everything runs on one cooperative event loop.  A coroutine runs until  *)
(* its next await, so every action below is the code between two awaits.   *)
(* The throttler's lock is a threading.Lock: taking it while another       *)
(* (suspended) coroutine holds it blocks the event loop's only thread.     *)
(*                                                                         *)
(* Time is counted in ticks of half a second; the clock is taken to be     *)
(* monotonic.                                                              *)
(***************************************************************************)
EXTENDS Integers, FiniteSets, Sequences, TLC

\* Bounds of the model.
MaxTime == 4
MaxCommands == 2
MaxThrottled == 3

\* min_diff = timedelta(seconds=1.5), in ticks of half a second.
min_diff == 3

None == 0 - 1

\* Config entries (accounts); async_setup_entry builds one coordinator each.
Entries == {"e1", "e2"}
DeviceIds == {"d1", "d2", "d3"}
EntryOf(d) == IF d = "d3" THEN "e2" ELSE "e1"
DevicesOf(e) == {d \in DeviceIds : EntryOf(d) = e}

\* Callers of facade commands (service calls running on the event loop).
Tasks == {"t1", "t2"}

\* A command payload: {"raw": [1, 1, num]} for key "raw", otherwise
\* {CONF_ATTRS: {key: value}} with the value a token (str) or a number (num).
Raw(n) == [key |-> "raw", str |-> "", num |-> n]
Mode(token) == [key |-> "mode", str |-> token, num |-> None]
Timer(n) == [key |-> "timer", str |-> "", num |-> n]

\* What async_set_preset_mode of the V2 facade sends for Comfort and for Off.
Payloads == {Mode("cft"), Mode("stop")}

\* The attribute mapping of a device (CONF_ATTR): mode, timer and on/off.
Attrs(mode, timer, on_off) == [mode |-> mode, timer |-> timer, on_off |-> on_off]

\* The device takes a command over: an attribute is set to the value sent, a
\* raw triple [1, 1, n] selects the n-th mode of a Pilote V1.
V1Modes == <<"u8212u9002", "u7ecfu6d4e", "u89e3u51bb", "u505cu6b62">>

Apply(attrs, payload) ==
    CASE payload.key = "raw" -> [attrs EXCEPT !.mode = V1Modes[payload.num + 1]]
      [] payload.key = "mode" -> [attrs EXCEPT !.mode = payload.str]
      [] payload.key = "timer" -> [attrs EXCEPT !.timer = payload.num]
      [] OTHER -> attrs

\* What the API client's calls can do.
ApiOutcomes == {"ok", "AuthenticationFailed", "HeatzyException", "TimeoutError"}

VARIABLES
    now,                \* datetime.now()
    lock,               \* lock[e]: coordinator e's _lock is held
    last_updated_time,  \* HeatzyDataUpdateCoordinator._last_updated_time (class attribute)
    pc,                 \* pc[t]: where facade command t stands
    cmd,                \* cmd[t]: the command of task t
    device,             \* device[d]: the mode the device really is in
    data,               \* data[e]: coordinator e's cached snapshot
    fetch,              \* fetch[e]: "idle" or "fetching"
    api,                \* api[e]: how the last async_get_devices call ended
    signal,             \* signal[e]: how the last refresh ended
    periodic,           \* periodic[e]: the update_interval timer is armed
    debounce,           \* debounce[e]: the request_refresh debouncer's timer is armed
    issued,             \* number of commands issued so far
    hist,               \* hist[d]: when the last command to d was issued / dispatched
    op,                 \* the async_set_hvac_mode call under way
    probe               \* a property read or a pure function, its input and result

vars == <<now, lock, last_updated_time, pc, cmd, device, data, fetch, api, signal,
          periodic, debounce, issued, hist, op, probe>>

\* What the coordinator and its throttler do not touch.
views == <<op, probe>>

NoCmd == [dev |-> "d1", payload |-> Mode("cft"), no |-> 0, wake |-> None,
          prevIssue |-> None, slept |-> FALSE, result |-> "pending",
          refreshed |-> FALSE]

\* What async_set_hvac_mode does once a command has returned.
Continue(kind, payload) == [kind |-> kind, payload |-> payload]

NoOp == [fam |-> "V2", mode |-> "none", status |-> "idle", step |-> 0,
         log |-> << >>, ok |-> TRUE, push |-> FALSE, fresh |-> FALSE,
         next |-> Continue("none", Mode("cft"))]

NoProbe == [fn |-> "none", in |-> << >>, out |-> "pending", done |-> FALSE]

\* The coordinator after async_setup_entry, nothing under way.
InitCoordinator ==
    /\ now = 0
    /\ lock = [e \in Entries |-> FALSE]
    /\ last_updated_time = [d \in DeviceIds |-> None]
    /\ pc = [t \in Tasks |-> "idle"]
    /\ cmd = [t \in Tasks |-> NoCmd]
    /\ device = [d \in DeviceIds |-> Attrs("cft", 0, 1)]
    \* async_setup_entry awaits the first refresh before the entities exist.
    /\ data = [e \in Entries |-> [d \in DevicesOf(e) |-> Attrs("cft", 0, 1)]]
    /\ fetch = [e \in Entries |-> "idle"]
    /\ api = [e \in Entries |-> "ok"]
    /\ signal = [e \in Entries |-> "ok"]
    /\ periodic = [e \in Entries |-> TRUE]
    /\ debounce = [e \in Entries |-> FALSE]
    /\ issued = 0
    /\ hist = [d \in DeviceIds |-> [issue |-> None, sent |-> None]]

Init ==
    /\ InitCoordinator
    /\ op = NoOp
    /\ probe = NoProbe

\* The event loop's thread is stuck in threading.Lock.acquire(): the coroutine
\* that holds the lock is suspended on the same thread and cannot release it.
LoopBlocked == \E t \in Tasks : pc[t] = "blocked"

(***************************************************************************)
(* Command throttler: async_control_device                                 *)
(***************************************************************************)

\* self._lock = threading.Lock(): one lock per coordinator instance.
LockOf(d) == EntryOf(d)

\* Faulty variant: the lock never keeps a second command out.
LockHeld_Never(e) == FALSE

\* with self._lock: the lock is taken by whoever finds it free.
LockHeld(e) == lock[e]

\* Faulty variant: one timestamp for all devices, the latest of them.
LastUpdate_AnyDevice(d) ==
    CHOOSE x \in {last_updated_time[y] : y \in DeviceIds} :
        \A y \in DeviceIds : last_updated_time[y] <= x

\* last_update = self._last_updated_time.get(device_id)
LastUpdate(d) == last_updated_time[d]

\* delta = now - last_update if last_update is not None else None
Delta(last, at) == IF last # None THEN at - last ELSE None

\* if delta is not None and delta < min_diff
NeedSleep(delta) == delta # None /\ delta < min_diff

\* asyncio.sleep((min_diff - delta).total_seconds())
SleepFor(delta) == min_diff - delta

\* Faulty variant: the handler logs and raises again.
ControlResult_Reraise(outcome) == IF outcome = "ok" THEN "ret" ELSE "raised"

\* ret = await self._api.async_control_device(...); return ret
\* except Exception as error: _LOGGER.error(...)   (falls off the end: None)
ControlResult(outcome) == IF outcome = "ok" THEN "ret" ELSE "none"

\* Faulty variant: a failed call forgets the device.
Stamp_DropOnFailure(outcome, old, at) == IF outcome = "ok" THEN at ELSE None

\* self._last_updated_time[device_id] = datetime.now() follows the awaited
\* call inside the try block: an exception of the call skips it.
Stamp(outcome, old, at) == IF outcome = "ok" THEN at ELSE old

\* Faulty variant: the facade command does not ask for a refresh.
RequestsRefresh_Never(result) == FALSE

\* The facade awaits async_control_device and then async_request_refresh; an
\* exception out of the first would skip the second.
RequestsRefresh(result) == result # "raised"

\* async_control_device up to its first await.
ControlDevice(t, d, p) ==
    /\ ~LoopBlocked
    /\ pc[t] \in {"idle", "done"}
    /\ now + min_diff <= MaxTime
    /\ issued' = issued + 1
    /\ LET e == LockOf(d)
           delta == Delta(LastUpdate(d), now)
           c == [NoCmd EXCEPT !.dev = d, !.payload = p, !.no = issued + 1,
                              !.prevIssue = hist[d].issue]
       IN  IF LockHeld(e)
           THEN /\ pc' = [pc EXCEPT ![t] = "blocked"]
                /\ cmd' = [cmd EXCEPT ![t] = c]
                /\ hist' = [hist EXCEPT ![d].issue = now]
                /\ UNCHANGED lock
           ELSE /\ lock' = [lock EXCEPT ![e] = TRUE]
                /\ IF NeedSleep(delta)
                   THEN /\ pc' = [pc EXCEPT ![t] = "sleeping"]
                        /\ cmd' = [cmd EXCEPT ![t] =
                                     [c EXCEPT !.wake = now + SleepFor(delta),
                                               !.slept = TRUE]]
                        /\ hist' = [hist EXCEPT ![d].issue = now]
                   ELSE /\ pc' = [pc EXCEPT ![t] = "sending"]
                        /\ cmd' = [cmd EXCEPT ![t] = c]
                        /\ hist' = [hist EXCEPT ![d] = [issue |-> now, sent |-> now]]
    /\ UNCHANGED <<now, last_updated_time, device, data, fetch, api, signal,
                   periodic, debounce>>

\* The facade command (async_set_preset_mode and the like) up to the first
\* await inside async_control_device.
Command(t, d, p) == ControlDevice(t, d, p) /\ UNCHANGED views

\* asyncio.sleep returns once the delay has passed; the API call is made.
Wakes(t) ==
    /\ ~LoopBlocked
    /\ pc[t] = "sleeping"
    /\ now >= cmd[t].wake
    /\ pc' = [pc EXCEPT ![t] = "sending"]
    /\ hist' = [hist EXCEPT ![cmd[t].dev].sent = now]
    /\ UNCHANGED <<now, lock, last_updated_time, cmd, device, data, fetch, api,
                   signal, periodic, debounce, issued>>

Wake(t) == Wakes(t) /\ UNCHANGED views

\* The API call ends with outcome; the rest of async_control_device and of the
\* facade command runs without another suspension (the debouncer is built with
\* immediate=False, so async_request_refresh only arms its timer).
Returned(t, outcome) ==
    LET d == cmd[t].dev
        e == LockOf(d)
        result == ControlResult(outcome)
        refreshed == RequestsRefresh(result)
    IN  /\ ~LoopBlocked
        /\ pc[t] = "sending"
        /\ lock' = [lock EXCEPT ![e] = FALSE]
        /\ last_updated_time' =
               [last_updated_time EXCEPT ![d] = Stamp(outcome, @, now)]
        /\ device' = IF outcome = "ok"
                     THEN [device EXCEPT ![d] = Apply(@, cmd[t].payload)]
                     ELSE device
        /\ cmd' = [cmd EXCEPT ![t].result = result, ![t].refreshed = refreshed,
                              ![t].wake = None, ![t].prevIssue = None]
        /\ debounce' = IF refreshed THEN [debounce EXCEPT ![EntryOf(d)] = TRUE]
                       ELSE debounce
        /\ pc' = [pc EXCEPT ![t] = "done"]
        /\ UNCHANGED <<now, data, fetch, api, signal, periodic, issued, hist>>

SendEnds(t, outcome) == Returned(t, outcome) /\ UNCHANGED views

SendOk(t) == SendEnds(t, "ok")

SendFails(t) == SendEnds(t, "HeatzyException")

(***************************************************************************)
(* Refresh coordinator                                                     *)
(***************************************************************************)

\* Faulty variant: an authentication failure is reported like any other failure.
UpdateData_AuthAsUpdateFailed(outcome, snapshot) ==
    CASE outcome = "ok" -> [raises |-> "none", data |-> snapshot]
      [] OTHER -> [raises |-> "UpdateFailed", data |-> snapshot]

\* Faulty variant: a failed fetch returns an empty mapping instead of raising.
UpdateData_EmptyOnFailure(outcome, snapshot) ==
    CASE outcome = "ok" -> [raises |-> "none", data |-> snapshot]
      [] outcome = "AuthenticationFailed" ->
             [raises |-> "ConfigEntryAuthFailed", data |-> snapshot]
      [] OTHER -> [raises |-> "none", data |-> << >>]

\* _async_update_data: what it returns or raises for an outcome of
\* async_get_devices under async_timeout.timeout(API_TIMEOUT).
UpdateData(outcome, snapshot) ==
    CASE outcome = "ok" -> [raises |-> "none", data |-> snapshot]
      [] outcome = "AuthenticationFailed" ->
             [raises |-> "ConfigEntryAuthFailed", data |-> snapshot]
      [] OTHER -> [raises |-> "UpdateFailed", data |-> snapshot]

Snapshot(e) == [d \in DevicesOf(e) |-> device[d]]

\* A refresh starts: both timers are cancelled until it ends.
StartFetch(e) ==
    /\ ~LoopBlocked
    /\ fetch[e] = "idle"
    /\ fetch' = [fetch EXCEPT ![e] = "fetching"]
    /\ periodic' = [periodic EXCEPT ![e] = FALSE]
    /\ debounce' = [debounce EXCEPT ![e] = FALSE]
    /\ UNCHANGED <<now, lock, last_updated_time, pc, cmd, device, data, api,
                   signal, issued, hist, views>>

\* update_interval=timedelta(seconds=SCAN_INTERVAL) elapses.
PeriodicFire(e) == periodic[e] /\ StartFetch(e)

\* The request_refresh debouncer's cooldown elapses.
DebounceFire(e) == debounce[e] /\ StartFetch(e)

\* Credentials are updated and the entry is set up again: first refresh.
Reauth(e) ==
    /\ signal[e] = "ConfigEntryAuthFailed"
    /\ \A t \in Tasks : pc[t] \in {"idle", "done"}
    /\ StartFetch(e)

\* The fetch ends: the cache is replaced only by what _async_update_data
\* returns; ConfigEntryAuthFailed stops the periodic timer, UpdateFailed and
\* success arm it again.
Refreshed(e, outcome) ==
    LET r == UpdateData(outcome, Snapshot(e))
    IN  /\ ~LoopBlocked
        /\ fetch[e] = "fetching"
        /\ fetch' = [fetch EXCEPT ![e] = "idle"]
        /\ api' = [api EXCEPT ![e] = outcome]
        /\ data' = IF r.raises = "none" THEN [data EXCEPT ![e] = r.data] ELSE data
        /\ signal' = [signal EXCEPT ![e] =
                        IF r.raises = "none" THEN "ok" ELSE r.raises]
        /\ periodic' = [periodic EXCEPT ![e] = r.raises # "ConfigEntryAuthFailed"]
        /\ UNCHANGED <<now, lock, last_updated_time, pc, cmd, device, debounce,
                       issued, hist>>

FetchEnds(e, outcome) == Refreshed(e, outcome) /\ UNCHANGED views

FetchOk(e) == FetchEnds(e, "ok")

FetchAuthFails(e) == FetchEnds(e, "AuthenticationFailed")

FetchFails(e) == FetchEnds(e, "HeatzyException")

FetchTimesOut(e) == FetchEnds(e, "TimeoutError")

\* Time passes.
Tick ==
    /\ now < MaxTime
    /\ now' = now + 1
    /\ UNCHANGED <<lock, last_updated_time, pc, cmd, device, data, fetch, api,
                   signal, periodic, debounce, issued, hist, views>>

\* One account: the coordinator of entry e1, its throttler and its facades.
Home == {"e1"}

Next ==
    \/ Tick
    \/ \E t \in Tasks, d \in DevicesOf("e1"), p \in Payloads :
           issued < MaxCommands /\ Command(t, d, p)
    \/ \E t \in Tasks : Wake(t)
    \/ \E t \in Tasks : SendOk(t)
    \/ \E t \in Tasks : SendFails(t)
    \/ \E e \in Home : PeriodicFire(e)
    \/ \E e \in Home : DebounceFire(e)
    \/ \E e \in Home : Reauth(e)
    \/ \E e \in Home : FetchOk(e)
    \/ \E e \in Home : FetchAuthFails(e)
    \/ \E e \in Home : FetchFails(e)
    \/ \E e \in Home : FetchTimesOut(e)

Spec == Init /\ [][Next]_vars

\* Two accounts, the command path alone: every coordinator's throttler shares
\* the event loop and the class attribute _last_updated_time.
NextThrottler ==
    \/ Tick
    \/ \E t \in Tasks, d \in DeviceIds, p \in Payloads :
           issued < MaxThrottled /\ Command(t, d, p)
    \/ \E t \in Tasks : Wake(t)
    \/ \E t \in Tasks : SendOk(t)
    \/ \E t \in Tasks : SendFails(t)

SpecThrottler == Init /\ [][NextThrottler]_vars

\* Time passes, and the event loop runs every callback that is ready: a sleep
\* that is over, an API call that has answered or timed out.
Fairness ==
    /\ WF_vars(Tick)
    /\ \A t \in Tasks : WF_vars(Wake(t))
    /\ \A t \in Tasks : WF_vars(SendOk(t) \/ SendFails(t))
    /\ \A e \in Home : WF_vars(FetchOk(e) \/ FetchAuthFails(e) \/ FetchFails(e)
                                  \/ FetchTimesOut(e))

FairSpec == Spec /\ Fairness

(***************************************************************************)
(* Properties                                                              *)
(***************************************************************************)

InFlight == {t \in Tasks : pc[t] = "sending"}

InFlightOf(e) == {t \in InFlight : LockOf(cmd[t].dev) = e}

\* C1 as stated: at every moment at most one sendCommand call is in flight in
\* the whole process, whatever the device ids.
C1_OneSendPerProcess == Cardinality(InFlight) <= 1

\* C1 amended: at every moment at most one sendCommand call is in flight per
\* coordinator, across all device ids of that coordinator.
C1_OneSendPerCoordinator == \A e \in Entries : Cardinality(InFlightOf(e)) <= 1

\* A send to one device is in flight while a command to another device of the
\* same coordinator has been issued and is kept out.
C1_Witness ==
    \E t, u \in Tasks :
        /\ pc[t] = "sending" /\ pc[u] = "blocked"
        /\ cmd[t].dev # cmd[u].dev
        /\ LockOf(cmd[t].dev) = LockOf(cmd[u].dev)

\* A command is handed to the transport in this step.
Dispatched(t) == pc[t] # "sending" /\ pc'[t] = "sending"

\* C2 as stated: of two consecutive commands to one device issued less than
\* 1.5 s apart, the second is dispatched no earlier than 1.5 s after the
\* first's dispatch; issued 1.5 s or more apart, the second does not sleep.
C2_SameDeviceSpacing ==
    [][\A t \in Tasks :
        LET d == cmd'[t].dev
            at == IF pc[t] = "sleeping" THEN hist[d].issue ELSE now
            prevIssue == IF pc[t] = "sleeping" THEN cmd[t].prevIssue
                         ELSE hist[d].issue
        IN  /\ (Dispatched(t) /\ prevIssue # None /\ hist[d].sent # None
                  /\ at - prevIssue < min_diff)
                   => now - hist[d].sent >= min_diff
            /\ (pc[t] \in {"idle", "done"} /\ pc'[t] = "sleeping")
                   => ~(hist[d].issue # None /\ now - hist[d].issue >= min_diff)
      ]_vars

\* The throttler puts the command to sleep in this step.
FallsAsleep(t) == pc[t] \in {"idle", "done"} /\ pc'[t] = "sleeping"

\* The sleep is taken only when the same device id has a LastCommandTime less
\* than 1.5 s old.
SleepOnlyForSameDevice ==
    \A t \in Tasks :
        FallsAsleep(t) =>
            /\ last_updated_time[cmd'[t].dev] # None
            /\ now - last_updated_time[cmd'[t].dev] < min_diff

\* Issued and not yet handed to the transport.
Waiting(t) == pc[t] \in {"blocked", "sleeping"}

\* C3 as stated: a command is never put to sleep because of another device's
\* LastCommandTime, and commands are dispatched strictly in issuance order.
C3_GlobalIssuanceOrder ==
    [][/\ SleepOnlyForSameDevice
       /\ \A t, u \in Tasks :
              (t # u /\ Dispatched(t) /\ Waiting(u)) => cmd'[t].no < cmd[u].no
      ]_vars

\* C3 amended: a command is never put to sleep because of another device's
\* LastCommandTime, and the commands of one coordinator are dispatched
\* strictly in issuance order.
C3_IssuanceOrderPerCoordinator ==
    [][/\ SleepOnlyForSameDevice
       /\ \A t, u \in Tasks :
              (t # u /\ Dispatched(t) /\ Waiting(u)
                 /\ LockOf(cmd'[t].dev) = LockOf(cmd[u].dev))
                  => cmd'[t].no < cmd[u].no
      ]_vars

\* A command to one device has returned and, in the same instant, the next
\* command, to another device of the same coordinator, is with the transport
\* without having slept.
C3_Witness ==
    \E t, u \in Tasks :
        /\ pc[t] = "done" /\ cmd[t].result = "ret"
        /\ pc[u] = "sending" /\ ~cmd[u].slept
        /\ cmd[u].no = cmd[t].no + 1
        /\ cmd[u].dev # cmd[t].dev
        /\ LockOf(cmd[u].dev) = LockOf(cmd[t].dev)
        /\ last_updated_time[cmd[t].dev] = now
        /\ hist[cmd[u].dev].sent = now

\* C4: controlDevice never raises: a failed send is caught and the facade
\* command goes on to request its refresh.
C4_NeverRaises ==
    \A t \in Tasks :
        pc[t] = "done" =>
            /\ cmd[t].result \in {"ret", "none"}
            /\ cmd[t].refreshed

\* A command whose send failed has returned, with no result.
C4_Witness ==
    \E t \in Tasks :
        pc[t] = "done" /\ cmd[t].result = "none" /\ debounce[LockOf(cmd[t].dev)]

\* C5 as stated: after every controlDevice attempt, failed or not,
\* LastCommandTime of the device is the time the transport call returned.
C5_StampOnEveryAttempt ==
    [][\A t \in Tasks :
        (pc[t] = "sending" /\ pc'[t] = "done")
            => last_updated_time'[cmd[t].dev] = now
      ]_vars

\* The facade command of task t returns to its caller in this step.
Returns(t) == pc[t] = "sending" /\ pc'[t] = "done"

C7_AuthFailureStopsPolling ==
    \A e \in Entries :
        api[e] = "AuthenticationFailed" =>
            /\ signal[e] = "ConfigEntryAuthFailed"
            /\ ~periodic[e]
            /\ ~ENABLED PeriodicFire(e)

\* A fetch has ended with an authentication failure.
C7_Witness ==
    \E e \in Entries :
        api[e] = "AuthenticationFailed" /\ fetch[e] = "idle" /\ ~debounce[e]

\* C8: a fetch that fails leaves the cache as it was, with every device id in
\* it.
C8_FailedFetchKeepsCache ==
    [][\A e \in Entries :
        /\ DOMAIN data'[e] = DevicesOf(e)
        /\ (fetch[e] = "fetching" /\ fetch'[e] = "idle" /\ api'[e] # "ok")
               => data'[e] = data[e]
      ]_vars

\* A fetch has timed out while the cache holds a snapshot the device has since
\* left.
C8_Witness ==
    \E e \in Entries :
        /\ api[e] = "TimeoutError" /\ fetch[e] = "idle"
        /\ signal[e] = "UpdateFailed"
        /\ data[e] # Snapshot(e)

\* C9 as stated: every fetch attempt finishes, also while facade commands are
\* being issued concurrently.
C9_FetchFinishes ==
    \A e \in Home : (fetch[e] = "fetching") ~> (fetch[e] = "idle")

\* C10: LastCommandTime never regresses and an entry, once created, stays.
C10_LastCommandTimeMonotonic ==
    [][\A d \in DeviceIds :
        last_updated_time[d] # None =>
            /\ last_updated_time'[d] # None
            /\ last_updated_time'[d] >= last_updated_time[d]
      ]_vars

\* The entry of a device has been written a second time, later than the first.
C10_Witness ==
    \E t \in Tasks :
        /\ pc[t] = "done" /\ cmd[t].slept /\ cmd[t].result = "ret"
        /\ last_updated_time[cmd[t].dev] = now
        /\ now >= min_diff

\* ---------------------------------------------------------------------------
\* The device codecs (climate.py)
\* ---------------------------------------------------------------------------

PRESET_COMFORT == "comfort"
PRESET_ECO == "eco"
PRESET_AWAY == "away"
PRESET_NONE == "none"
PRESET_LIST == {PRESET_NONE, PRESET_COMFORT, PRESET_ECO, PRESET_AWAY}

\* Python's None where the other results are strings.
Absent == "None"

\* The three facades async_setup_entry chooses from.
Families == {"V1", "V2", "Glow"}

\* dict.get(key): the entry, or None.
Lookup(table, key) == IF key \in DOMAIN table THEN table[key] ELSE Absent

\* Pilote V1: the state is read from a mode string, a preset is written as
\* the raw triple [1, 1, n] (the table holds n).
HEATZY_TO_HA_STATE_V1 ==
    [w \in {V1Modes[1], V1Modes[2], V1Modes[3], V1Modes[4]} |->
        CASE w = "u8212u9002" -> PRESET_COMFORT
          [] w = "u7ecfu6d4e" -> PRESET_ECO
          [] w = "u89e3u51bb" -> PRESET_AWAY
          [] OTHER -> PRESET_NONE]

HA_TO_HEATZY_STATE_V1 ==
    [p \in PRESET_LIST |->
        CASE p = PRESET_COMFORT -> 0
          [] p = PRESET_ECO -> 1
          [] p = PRESET_AWAY -> 2
          [] OTHER -> 3]

\* Pilote V2, inherited unchanged by the Glow.
HEATZY_TO_HA_STATE_V2 ==
    [w \in {"cft", "eco", "fro", "stop"} |->
        CASE w = "cft" -> PRESET_COMFORT
          [] w = "eco" -> PRESET_ECO
          [] w = "fro" -> PRESET_AWAY
          [] OTHER -> PRESET_NONE]

\* Faulty variant: Eco and Away are written with each other's token.
HA_TO_HEATZY_STATE_V2_Swapped ==
    [p \in PRESET_LIST |->
        CASE p = PRESET_COMFORT -> "cft"
          [] p = PRESET_ECO -> "fro"
          [] p = PRESET_AWAY -> "eco"
          [] OTHER -> "stop"]

HA_TO_HEATZY_STATE_V2 ==
    [p \in PRESET_LIST |->
        CASE p = PRESET_COMFORT -> "cft"
          [] p = PRESET_ECO -> "eco"
          [] p = PRESET_AWAY -> "fro"
          [] OTHER -> "stop"]

\* The payload async_set_preset_mode passes to async_control_device.
Encode(fam, preset) ==
    IF fam = "V1"
    THEN Raw(HA_TO_HEATZY_STATE_V1[preset])
    ELSE Mode(Lookup(HA_TO_HEATZY_STATE_V2, preset))

\* preset_mode applied to a wire value: a dict lookup by that value.  A raw
\* triple is a list, which a dict cannot take as a key.
Decode(fam, wire) ==
    IF wire.key = "raw"
    THEN "TypeError"
    ELSE Lookup(IF fam = "V1" THEN HEATZY_TO_HA_STATE_V1 ELSE HEATZY_TO_HA_STATE_V2,
                wire.str)

\* preset_mode: the preset read from the cached attributes of a device.
PresetMode(fam, attrs) == Decode(fam, Mode(attrs.mode))

\* ---------------------------------------------------------------------------
\* Pure functions and property reads, applied to inputs drawn in InitPure
\* ---------------------------------------------------------------------------

coordinator == <<now, lock, last_updated_time, pc, cmd, device, data, fetch, api,
                 signal, periodic, debounce, issued, hist>>

ProbeOf(fn, in) == [fn |-> fn, in |-> in, out |-> "pending", done |-> FALSE]

Ready(fn) == probe.fn = fn /\ ~probe.done

Answered(fn) == probe.fn = fn /\ probe.done

Answer(out) ==
    /\ probe' = [probe EXCEPT !.out = out, !.done = TRUE]
    /\ UNCHANGED <<coordinator, op>>

CodecInputs ==
    {ProbeOf("codec", [fam |-> f, preset |-> p]) : f \in Families, p \in PRESET_LIST}

\* A preset is encoded and the wire value decoded again.
RoundTrip ==
    /\ Ready("codec")
    /\ LET wire == Encode(probe.in.fam, probe.in.preset)
       IN Answer([wire |-> wire, preset |-> Decode(probe.in.fam, wire)])

\* ---- the schedule decoder (get_programmed_preset_at_date) ----

MaxBlockValue == 15
BITS_PER_STATE == 2

Weekdays == {1, 7}
Hours == 0 .. 23
Minutes == {0, 29, 30, 59}

\* Faulty variant: code 0 is read as Eco.
BITS_TO_PRESET_ZeroAsEco ==
    [code \in 0 .. 3 |->
        CASE code = 0 -> PRESET_ECO
          [] code = 1 -> PRESET_ECO
          [] code = 2 -> PRESET_AWAY
          [] OTHER -> PRESET_NONE]

BITS_TO_PRESET ==
    [code \in 0 .. 3 |->
        CASE code = 0 -> PRESET_COMFORT
          [] code = 1 -> PRESET_ECO
          [] code = 2 -> PRESET_AWAY
          [] OTHER -> PRESET_NONE]

\* x << k and x >> k on Python's unbounded integers.
ShiftLeft(x, k) == x * 2 ^ k
ShiftRight(x, k) == x \div 2 ^ k

\* block_nb = ((date.hour % 2) >> 1) + int(date.minute < 30)
BlockNb(hour, minute) ==
    ShiftRight(hour % 2, 1) + (IF minute < 30 THEN 1 ELSE 0)

\* _BITS_TO_PRESET[(state_value << (_BITS_PER_STATE*block_nb)) % 2*_BITS_PER_STATE]
\* where % and * bind alike, from the left.
DecodeBlock(state_value, hour, minute) ==
    LET code == (ShiftLeft(state_value, BITS_PER_STATE * BlockNb(hour, minute)) % 2)
                    * BITS_PER_STATE
    IN IF code \in DOMAIN BITS_TO_PRESET THEN BITS_TO_PRESET[code] ELSE "KeyError"

\* f"p{date.isoweekday()}_data{date.hour/2}": the quotient is a float, printed
\* with its fraction: <<1, 3, 5>> stands for "p1_data3.5".
ScheduleKey(weekday, hour) == <<weekday, hour \div 2, IF hour % 2 = 1 THEN 5 ELSE 0>>

\* self.data.data: self.data is the dict _async_update_data returned, and a
\* dict has no attribute "data".
DataAttribute(snapshot) == "AttributeError"

GetProgrammedPreset(snapshot, unique_id, weekday, hour, minute) ==
    LET key == ScheduleKey(weekday, hour)
        view == DataAttribute(snapshot)
    IN IF view = "AttributeError"
       THEN "AttributeError"
       ELSE LET sched == view[unique_id]
                state_value == IF key \in DOMAIN sched THEN sched[key] ELSE None
            IN IF state_value = None
               THEN Absent
               ELSE DecodeBlock(state_value, hour, minute)

DecodeInputs ==
    {ProbeOf("decode", [v |-> v, hour |-> h, minute |-> m]) :
        v \in 0 .. MaxBlockValue, h \in Hours, m \in Minutes}

\* The cached schedule of the device: none, or one value under every key.
NoSchedule == << >>
ScheduleKeys == {ScheduleKey(w, h) : w \in Weekdays, h \in {0, 1, 23}}
Schedules == {NoSchedule} \cup {[k \in ScheduleKeys |-> v] : v \in {0, 3}}

ProgrammedInputs ==
    {ProbeOf("programmed", [sched |-> sc, weekday |-> w, hour |-> h, minute |-> m]) :
        sc \in Schedules, w \in Weekdays, h \in {0, 1, 23}, m \in {0, 30}}

\* Lines 109-110 applied to a block value that is present.
DecodeApplied ==
    /\ Ready("decode")
    /\ Answer(DecodeBlock(probe.in.v, probe.in.hour, probe.in.minute))

\* get_programmed_preset_at_date(unique_id, date) on a cache holding the
\* schedule.
ProgrammedPresetRead ==
    /\ Ready("programmed")
    /\ Answer(GetProgrammedPreset([d \in {"d1"} |-> probe.in.sched], "d1",
                                  probe.in.weekday, probe.in.hour, probe.in.minute))

\* ---- hvac_mode and extra_state_attributes ----

HVAC_AUTO == "auto"
HVAC_HEAT == "heat"
HVAC_OFF == "off"

MODE_LIST == {HVAC_HEAT, HVAC_OFF}
MODE_LIST_V2 == {HVAC_AUTO, HVAC_HEAT, HVAC_OFF}

\* _attr_hvac_modes: what a facade advertises.
HvacModes(fam) == IF fam = "V1" THEN MODE_LIST ELSE MODE_LIST_V2

AutoMode(attrs) == attrs.timer = 1

\* hvac_mode of the base class (V1), of the V2 and of the Glow.
HvacMode(fam, attrs) ==
    CASE fam = "Glow" -> IF attrs.on_off = 0 THEN HVAC_OFF ELSE HVAC_HEAT
      [] fam = "V2" ->
            IF AutoMode(attrs) THEN HVAC_AUTO
            ELSE IF PresetMode(fam, attrs) = PRESET_NONE THEN HVAC_OFF ELSE HVAC_HEAT
      [] OTHER -> IF PresetMode(fam, attrs) = PRESET_NONE THEN HVAC_OFF ELSE HVAC_HEAT

\* The mode strings a fetch may bring: those of the family, or one the table
\* does not know.
ModesOf(fam) ==
    IF fam = "V1"
    THEN {V1Modes[1], V1Modes[4], "unknown"}
    ELSE {"cft", "eco", "fro", "stop", "unknown"}

HvacInputs ==
    UNION {{ProbeOf("hvac", [fam |-> f, attrs |-> Attrs(mo, ti, oo)]) :
                mo \in ModesOf(f), ti \in {None, 0, 1}, oo \in {None, 0, 1}} :
           f \in Families}

HvacModeRead ==
    /\ Ready("hvac")
    /\ Answer(HvacMode(probe.in.fam, probe.in.attrs))

MaxClock == 12
FiveSeconds == 10

\* recent_update_by_homeassistant, read at "at" with get_last_updated_time
\* giving last_update.
RecentUpdate(last_update, at) ==
    IF last_update # None THEN (last_update - at) < FiveSeconds ELSE FALSE

RecentInputs ==
    UNION {{ProbeOf("recent", [last |-> l, at |-> a]) :
                a \in (IF l = None THEN 0 ELSE l) .. MaxClock} :
           l \in {None} \cup (0 .. MaxClock)}

ExtraStateAttributesRead ==
    /\ Ready("recent")
    /\ Answer(RecentUpdate(probe.in.last, probe.in.at))

InitPure ==
    /\ InitCoordinator
    /\ op = NoOp
    /\ probe \in CodecInputs \cup DecodeInputs \cup ProgrammedInputs
                   \cup HvacInputs \cup RecentInputs

NextPure ==
    \/ RoundTrip
    \/ DecodeApplied
    \/ ProgrammedPresetRead
    \/ HvacModeRead
    \/ ExtraStateAttributesRead

SpecPure == InitPure /\ [][NextPure]_vars

\* ---------------------------------------------------------------------------
\* Properties of the codecs, the decoder and the property reads
\* ---------------------------------------------------------------------------

\* C11 as stated: for every preset and every codec (V1, V2, V2-Glow), decoding
\* the wire value produced by encoding the preset yields the preset again.
C11_RoundTripEveryCodec ==
    Answered("codec") => probe.out.preset = probe.in.preset

\* C11, amended: the round trip holds for the V2 and the V2-Glow codec, whose
\* two tables are inverse to each other.
C11_RoundTripV2 ==
    Answered("codec") /\ probe.in.fam \in {"V2", "Glow"} =>
        probe.out.preset = probe.in.preset

\* Off has gone through the Glow's tables as "stop" and come back.
C11_Witness ==
    /\ Answered("codec")
    /\ probe.in.fam = "Glow" /\ probe.in.preset = PRESET_NONE
    /\ probe.out.wire = Mode("stop")
    /\ probe.out.preset = PRESET_NONE

\* C12 as stated: get_programmed_preset_at_date returns absent, without
\* raising, whenever the cache holds no schedule value under the derived key.
C12_AbsentWithoutSchedule ==
    Answered("programmed")
        /\ ScheduleKey(probe.in.weekday, probe.in.hour) \notin DOMAIN probe.in.sched
    => probe.out = Absent

C14_AutoWhenTimerSet ==
    Answered("hvac") /\ probe.in.fam \in {"V2", "Glow"} =>
        probe.out = IF probe.in.attrs.timer = 1
                    THEN HVAC_AUTO
                    ELSE IF PresetMode(probe.in.fam, probe.in.attrs) = PRESET_NONE
                         THEN HVAC_OFF
                         ELSE HVAC_HEAT

\* C17 as stated: recent_update_by_homeassistant is true exactly when a
\* command was recorded less than 5 seconds before the read.
C17_RecentWithinFiveSeconds ==
    Answered("recent") =>
        probe.out = (probe.in.last # None /\ probe.in.at - probe.in.last < FiveSeconds)

\* The half-hour of the two-hour block a time falls into, 0 to 3.
HalfHour(hour, minute) == (hour % 2) * 2 + (IF minute < 30 THEN 0 ELSE 1)

\* C18 as stated: the decoder returns the preset of the 2-bit field of the
\* block value that the half-hour selects, map[(v shifted to the field) mod 4].
C18_DecodesSelectedField ==
    Answered("decode") =>
        probe.out = BITS_TO_PRESET[
            ShiftRight(probe.in.v,
                       BITS_PER_STATE * HalfHour(probe.in.hour, probe.in.minute)) % 4]

\* ---------------------------------------------------------------------------
\* async_set_hvac_mode of the three facades (climate.py)
\* ---------------------------------------------------------------------------

\* The entity of device d1, its only caller.
Caller == "t1"
Entity == "d1"

Event(ev, payload) == [ev |-> ev, p |-> payload]

\* The first command async_set_hvac_mode sends: the base class turns the
\* device off or on through async_set_preset_mode, the V2 (and the Glow, which
\* inherits it) sets the timer through async_set_auto_mode.
SetHvacModeFirst(fam, hvac_mode) ==
    IF fam = "V1"
    THEN Encode(fam, IF hvac_mode = HVAC_OFF THEN PRESET_NONE ELSE PRESET_COMFORT)
    ELSE Timer(IF hvac_mode = HVAC_AUTO THEN 1 ELSE 0)

\* if self.preset_mode == PRESET_NONE or hvac_mode == HVACMode.AUTO
PushesProgrammed(fam, hvac_mode, attrs) ==
    /\ fam # "V1"
    /\ hvac_mode # HVAC_OFF
    /\ (PresetMode(fam, attrs) = PRESET_NONE \/ hvac_mode = HVAC_AUTO)

\* Faulty variant: Off stops after the timer command.
SetHvacModeThen_TimerOnly(fam, hvac_mode, step, attrs, programmed) ==
    Continue("done", Mode("cft"))

\* What follows once command number step has returned and the refresh has
\* been requested; attrs is the cache at that moment, programmed the result of
\* get_programmed_preset_at_time().
SetHvacModeThen(fam, hvac_mode, step, attrs, programmed) ==
    CASE fam = "V1" \/ step # 1 -> Continue("done", Mode("cft"))
      [] hvac_mode = HVAC_OFF -> Continue("send", Encode(fam, PRESET_NONE))
      [] PushesProgrammed(fam, hvac_mode, attrs) ->
            IF programmed = "AttributeError"
            THEN Continue("raise", Mode("cft"))
            ELSE Continue("send", Encode(fam, programmed))
      [] OTHER -> Continue("done", Mode("cft"))

\* The attributes a device of the family can be left with by its owner.
FacadeAttrs(fam) ==
    {Attrs(mo, ti, oo) : mo \in ModesOf(fam) \ {"unknown"}, ti \in {0, 1}, oo \in {0, 1}}

\* The call is between two commands: no await lies between the return of one
\* and the issue of the next.
Continuing == op.status = "running" /\ pc[Caller] = "done"

\* The device is operated from elsewhere (the vendor's application).
DeviceOperated(attrs) ==
    /\ ~LoopBlocked
    /\ op.status = "idle"
    /\ device[Entity] # attrs
    /\ device' = [device EXCEPT ![Entity] = attrs]
    /\ UNCHANGED <<now, lock, last_updated_time, pc, cmd, data, fetch, api, signal,
                   periodic, debounce, issued, hist, views>>

\* async_set_hvac_mode(hvac_mode) up to the first await of its first command.
SetHvacMode(hvac_mode) ==
    LET first == SetHvacModeFirst(op.fam, hvac_mode)
    IN  /\ op.status = "idle"
        /\ ControlDevice(Caller, Entity, first)
        /\ op' = [op EXCEPT !.mode = hvac_mode, !.status = "running", !.step = 1,
                            !.log = IF pc'[Caller] = "sending"
                                    THEN <<Event("send", first)>> ELSE << >>]
        /\ UNCHANGED probe

\* The throttler's sleep is over and the command goes out.
FacadeWake ==
    /\ op.status = "running"
    /\ Wakes(Caller)
    /\ op' = [op EXCEPT !.log = Append(@, Event("send", cmd[Caller].payload))]
    /\ UNCHANGED probe

\* async_control_device returns, the refresh is requested, and the handler
\* decides what comes next.
FacadeReturn(outcome) ==
    \E w \in Weekdays, h \in {0, 23}, m \in {0, 30} :
        LET result == ControlResult(outcome)
            attrs == data[EntryOf(Entity)][Entity]
            then == SetHvacModeThen(op.fam, op.mode, op.step, attrs,
                        GetProgrammedPreset(data[EntryOf(Entity)], Entity, w, h, m))
            sent == cmd[Caller].payload
        IN  /\ op.status = "running"
            /\ Returned(Caller, outcome)
            /\ op' = [op EXCEPT
                   !.log = @ \o <<Event("ret", sent)>>
                             \o (IF RequestsRefresh(result)
                                 THEN <<Event("refresh", sent)>> ELSE << >>),
                   !.ok = @ /\ outcome = "ok",
                   !.push = @ \/ (result # "raised" /\ op.step = 1
                                    /\ PushesProgrammed(op.fam, op.mode, attrs)),
                   !.next = IF result = "raised" THEN Continue("raise", sent) ELSE then,
                   !.status = CASE result = "raised" -> "raised"
                                [] then.kind = "send" -> "running"
                                [] then.kind = "raise" -> "raised"
                                [] OTHER -> "completed"]
            /\ UNCHANGED probe

FacadeSendOk == FacadeReturn("ok")

FacadeSendFails == FacadeReturn("HeatzyException")

\* The handler's next command, up to its first await.
FacadeNext ==
    /\ Continuing
    /\ op.next.kind = "send"
    /\ ControlDevice(Caller, Entity, op.next.payload)
    /\ op' = [op EXCEPT !.step = @ + 1,
                        !.next = Continue("none", Mode("cft")),
                        !.log = IF pc'[Caller] = "sending"
                                THEN Append(@, Event("send", op.next.payload)) ELSE @]
    /\ UNCHANGED probe

\* A refresh brings the device's attributes into the cache; it is the refresh
\* after the call when the call is over.
FacadeFetchOk ==
    /\ Refreshed(EntryOf(Entity), "ok")
    /\ op' = [op EXCEPT !.fresh = @ \/ op.status = "completed"]
    /\ UNCHANGED probe

InitFacade ==
    /\ InitCoordinator
    /\ op \in {[NoOp EXCEPT !.fam = f] : f \in Families}
    /\ probe = NoProbe

NextFacade ==
    \/ \E attrs \in FacadeAttrs(op.fam) : DeviceOperated(attrs)
    \/ \E m \in HvacModes(op.fam) : SetHvacMode(m)
    \/ FacadeWake
    \/ FacadeSendOk
    \/ FacadeSendFails
    \/ FacadeNext
    \/ ~Continuing /\ Tick
    \/ ~Continuing /\ PeriodicFire(EntryOf(Entity))
    \/ ~Continuing /\ DebounceFire(EntryOf(Entity))
    \/ ~Continuing /\ FacadeFetchOk
    \/ ~Continuing /\ FetchFails(EntryOf(Entity))

SpecFacade == InitFacade /\ [][NextFacade]_vars

\* ---------------------------------------------------------------------------
\* Properties of async_set_hvac_mode
\* ---------------------------------------------------------------------------

\* What setting Off on a V2 is to do, in order.
OffSequence ==
    <<Event("send", Timer(0)), Event("ret", Timer(0)), Event("refresh", Timer(0)),
      Event("send", Mode("stop")), Event("ret", Mode("stop")),
      Event("refresh", Mode("stop"))>>

IsPrefix(a, b) == Len(a) <= Len(b) /\ a = SubSeq(b, 1, Len(a))

\* C15: setting Off on a V2 sends timer=0 and then mode "stop", the second
\* only after the first has returned, each followed by a refresh request, and
\* nothing else; the call ends when both are done.
C15_OffIsTimerThenStop ==
    op.fam = "V2" /\ op.mode = HVAC_OFF =>
        /\ IsPrefix(op.log, OffSequence)
        /\ op.status # "raised"
        /\ op.status = "completed" <=> op.log = OffSequence

\* Off has been set on a V2 and the call is over, the device stopped.
C15_Witness ==
    /\ op.fam = "V2" /\ op.mode = HVAC_OFF /\ op.status = "completed"
    /\ op.log = OffSequence
    /\ device[Entity].timer = 0 /\ device[Entity].mode = "stop"

\* The payloads sent so far by the call.
SentPayloads == {op.log[i].p : i \in {j \in 1 .. Len(op.log) : op.log[j].ev = "send"}}

\* C16 as stated: Heat sends timer=0 and Auto timer=1 on a V2, and whenever
\* the cached preset is Off or the mode asked for is Auto, a further command
\* sets the mode to the programmed preset, as one of cft, eco, fro, stop.
C16_PushesProgrammedPreset ==
    op.fam = "V2" /\ op.mode \in {HVAC_HEAT, HVAC_AUTO}
        /\ op.status \in {"completed", "raised"}
    => /\ Timer(IF op.mode = HVAC_AUTO THEN 1 ELSE 0) \in SentPayloads
       /\ op.push =>
              \E token \in {"cft", "eco", "fro", "stop"} : Mode(token) \in SentPayloads

\* C20 as stated: on every family and for every advertised mode, once the
\* call has completed with every command taken over by the device and a
\* refresh has succeeded since, the HVAC mode read from the cache is the mode
\* that was set.
C20_ModeReadsBack ==
    op.status = "completed" /\ op.ok /\ op.fresh =>
        HvacMode(op.fam, data[EntryOf(Entity)][Entity]) = op.mode

\* ---------------------------------------------------------------------------
\* Progress of the throttler
\* ---------------------------------------------------------------------------

\* An async_control_device call that has not returned yet.
Pending(t) == pc[t] \in {"blocked", "sleeping", "sending"}

\* C19 as stated: every async_control_device call returns in the end, also
\* one that arrives while another holds the lock; it waits for the release
\* and the event loop goes on.
C19_EveryCommandReturns ==
    \A t \in Tasks : Pending(t) ~> (pc[t] = "done")
====
